---- MODULE Spec2Model ----
(***************************************************************************)
(* Model of the procedural audio engine of ICE-CREAM3D                      *)
(* (src/utils/soundUtils.ts): the look-ahead music sequencer, its          *)
(* transport (startMusic / stopMusic), the parameter setters (setVolumes,  *)
(* setBPM) and the one-shot effects.                                       *)
(*                                                                         *)
(* Time is counted in units of 1/11 ms, so that the sixteenth-note length  *)
(* 60/bpm/4 s is an exact integer for the tempi used (110 BPM -> 1500,     *)
(* 150 BPM -> 1100).  Volumes are counted in hundredths (0.5 -> 50),       *)
(* gains in thousandths (0.3 * sfxVolume -> 3 * sfxVolume) and frequencies *)
(* in mHz (440 Hz -> 440000), so that freq * 0.8 is exact.                 *)
(***************************************************************************)
EXTENDS Integers, Sequences, FiniteSets, TLC

VARIABLES
  backendOK,      \* the platform can create an AudioContext
  audioCtx,       \* audioCtx is not null
  ctxState,       \* audioCtx.state
  now,            \* audioCtx.currentTime
  sfxVolume, musicVolume, musicPlaying, nextNoteTime, timerID, currentNote,
  musicGainNode, currentBPM,
  timers,         \* the pending setTimeout timers: [id, left]
  voices,         \* the oscillators started so far, in creation order
  op,             \* the last operation
  result,         \* how it ended: "ok", "throw" or "hang"
  calls,          \* the number of calls made to the exported functions
  \* The state of the App component.
  gameState, difficulty, coins, timer, customer, settings, currentContainer,
  currentLayers, currentTopping, isSuccess,
  request         \* the scoops asked for in the last order request (0: none)

\* The state of the App component (useState, lines 99-121).
app == <<gameState, difficulty, coins, timer, customer, settings,
         currentContainer, currentLayers, currentTopping, isSuccess, request>>

vars == <<backendOK, audioCtx, ctxState, now, sfxVolume, musicVolume,
          musicPlaying, nextNoteTime, timerID, timers, currentNote,
          musicGainNode, currentBPM, voices, op, result, calls, app>>

\* The module-level state of soundUtils.ts (lines 6-14), without the clock.
engine == <<audioCtx, sfxVolume, musicVolume, musicPlaying, nextNoteTime,
            timerID, timers, currentNote, musicGainNode, currentBPM>>

(***************************************************************************)
(* Bounds of the model.                                                    *)
(***************************************************************************)
\* The audio clock is followed for MaxPolls polling intervals.
MaxPolls == 12
\* At most MaxCalls calls are made to the exported functions.
MaxCalls == 4
\* With the effects: at most MaxFxCalls calls are made, MaxEffects of them
\* effects, and the audio clock is followed for MaxFxPolls polling intervals.
MaxFxCalls == 3
MaxEffects == 1
MaxFxPolls == 2
MaxRunPolls == 400

(***************************************************************************)
(* Units.                                                                  *)
(***************************************************************************)
Ms(n) == n * 11
Seconds(n) == Ms(1000 * n)

\* scheduler: the `+ 0.1` of the while condition
LOOKAHEAD == Ms(100)
\* scheduler: window.setTimeout(scheduler, 25)
POLL == Ms(25)
\* startMusic: nextNoteTime = ctx.currentTime + 0.1
StartOffset == Ms(100)
\* setVolumes: linearRampToValueAtTime(musicVolume, currentTime + 0.1)
RampTime == Ms(100)
\* scheduleNote: the 0.05 s attack / release of the melody envelope
Attack == Ms(50)

MaxTime == MaxPolls * POLL

(***************************************************************************)
(* Track data: the durations (in sixteenth notes) of melody and bassLine.  *)
(***************************************************************************)
melody ==
  << 2, 2, 2, 2, 4, 4,
     2, 2, 2, 2, 4, 4,
     2, 2, 2, 2, 4, 4,
     2, 2, 2, 2, 8 >>

bassLine ==
  << 4, 4, 4, 4,
     4, 4, 4, 4,
     4, 4, 4, 4,
     4, 4, 8 >>

\* NOTES, in hundredths of a hertz.
NOTES ==
  [C3 |-> 13081, D3 |-> 14683, E3 |-> 16481, F3 |-> 17461, G3 |-> 19600,
   A3 |-> 22000, B3 |-> 24694,
   C4 |-> 26163, D4 |-> 29366, E4 |-> 32963, F4 |-> 34923, G4 |-> 39200,
   A4 |-> 44000, B4 |-> 49388,
   C5 |-> 52325, D5 |-> 58733, E5 |-> 65925, F5 |-> 69846, G5 |-> 78399,
   A5 |-> 88000,
   C6 |-> 104650,
   D6 |-> 117466]

\* A frequency given in hundredths of a hertz, and one given in hertz.
CHz(c) == c * 10
Hz(n) == n * 1000

\* The frequencies of melody and bassLine.
melodyFreq ==
  << NOTES.C4, NOTES.E4, NOTES.G4, NOTES.C5, NOTES.E5, NOTES.G5,
     NOTES.F5, NOTES.D5, NOTES.B4, NOTES.G4, NOTES.E4, NOTES.C4,
     NOTES.F4, NOTES.A4, NOTES.C5, NOTES.F5, NOTES.A5, NOTES.F5,
     NOTES.G4, NOTES.B4, NOTES.D5, NOTES.G5, NOTES.B4 >>

bassLineFreq ==
  << NOTES.C3, NOTES.G3, NOTES.C3, NOTES.E3,
     NOTES.G3, NOTES.D3, NOTES.G3, NOTES.B3,
     NOTES.F3, NOTES.C4, NOTES.F3, NOTES.A3,
     NOTES.G3, NOTES.D4, NOTES.G3 >>

(***************************************************************************)
(* Inputs of the setters.                                                  *)
(***************************************************************************)
\* 110 and 150 are the tempi the game sets; 0 and -110 are what the
\* exported setter can also be handed.
\* Number.POSITIVE_INFINITY, a number setBPM takes like any other: 60 / bpm
\* is then exactly 0 (as it is, in floating point, once added to a time,
\* for every tempo above some 10^18).
Infinity == 10^9
BPMInputs == {-110, 0, 110, 150, Infinity}
\* (sfx, music) pairs in hundredths: the defaults, mute, full, out of range.
VolumeInputs == { <<50, 30>>, <<0, 0>>, <<100, 100>>, <<150, -50>> }

(***************************************************************************)
(* 60 / bpm / 4, the length of a sixteenth note.  In JavaScript 60/0 is    *)
(* Infinity: IsFiniteStep tells the two cases apart.                       *)
(***************************************************************************)
IsFiniteStep(bpm) == bpm # 0

sixteenthNoteTime_Eighth(bpm) == (Seconds(60) \div bpm) \div 2

sixteenthNoteTime(bpm) == (Seconds(60) \div bpm) \div 4

(***************************************************************************)
(* Voices committed to the audio backend.  A voice is an oscillator of a   *)
(* waveform, started at `start` and stopped at `stop`, with the control    *)
(* points set on its frequency (freq) and on its gain node (gain).  A      *)
(* music voice is routed to the music bus, idx being the index of its note *)
(* in its track; an effect voice is routed to the destination, idx being   *)
(* its rank among the voices of its effect.                                *)
(***************************************************************************)
\* The control points: the immediate value, setValueAtTime,
\* linearRampToValueAtTime and exponentialRampToValueAtTime.
Value(v, t) == [k |-> "value", v |-> v, t |-> t]
SetAt(v, t) == [k |-> "set", v |-> v, t |-> t]
LinTo(v, t) == [k |-> "lin", v |-> v, t |-> t]
ExpTo(v, t) == [k |-> "exp", v |-> v, t |-> t]

Voice(bus, track, idx, wave, start, stop, freq, gain) ==
  [bus |-> bus, track |-> track, idx |-> idx, wave |-> wave,
   start |-> start, stop |-> stop, freq |-> freq, gain |-> gain]

MusicVoice(track, idx, start, stop) ==
  IF track = "melody"
    THEN Voice("music", track, idx, "triangle", start, stop,
               << Value(CHz(melodyFreq[idx + 1]), start) >>,
               << SetAt(10, start), LinTo(100, start + Attack),
                  ExpTo(10, stop - Attack) >>)
    ELSE Voice("music", track, idx, "sine", start, stop,
               << Value(CHz(bassLineFreq[idx + 1]), start) >>,
               << SetAt(150, start), ExpTo(10, stop) >>)

\* an effect voice connected to musicGainNode instead of ctx.destination
EffectVoice_ThroughBus(name, idx, wave, start, stop, freq, gain) ==
  Voice("music", name, idx, wave, start, stop, freq, gain)

EffectVoice(name, idx, wave, start, stop, freq, gain) ==
  Voice("sfx", name, idx, wave, start, stop, freq, gain)

MusicVoices(vs) == {i \in DOMAIN vs : vs[i].bus = "music"}
EffectVoices(vs) == {i \in DOMAIN vs : vs[i].bus = "sfx"}

(***************************************************************************)
(* getContext and the `if (ctx.state === 'suspended') ctx.resume()` that   *)
(* follows it in every caller.  The constructor throws when the backend is *)
(* unavailable.  A new context starts suspended or running, and a resume   *)
(* request may or may not bring a suspended context to running.            *)
(***************************************************************************)
getContextThrows == ~audioCtx /\ ~backendOK

ResumeOutcomes ==
  IF audioCtx /\ ctxState = "running" THEN {"running"}
                                      ELSE {"suspended", "running"}

(***************************************************************************)
(* The AudioParam / oscillator calls of the Web Audio API throw on a       *)
(* negative or non-finite time.                                            *)
(***************************************************************************)
TimeOK(t) == t >= 0

(***************************************************************************)
(* scheduleNote(time), on the record                                       *)
(*   st = [next, note, voices, bus, out]                                   *)
(* of nextNoteTime, currentNote, the voices, musicGainNode and the outcome *)
(* so far ("ok", or "throw" once a Web Audio call has thrown).             *)
(***************************************************************************)
\* musicGainNode: null, or a gain node with its value and its last ramp.
NoGainNode == [created |-> FALSE, value |-> 0, target |-> 0, rampEnd |-> 0]
\* createGain without `gain.value = musicVolume`: the default gain of 1
NewMusicGainNode_DefaultGain(vol) ==
  [created |-> TRUE, value |-> 100, target |-> 100, rampEnd |-> 0]

NewMusicGainNode(vol) ==
  [created |-> TRUE, value |-> vol, target |-> vol, rampEnd |-> 0]

\* scheduleNote advancing nextNoteTime by the bass note's duration
scheduleNote_BassAdvance(st, bpm, vol) ==
  LET time   == st.next
      bus    == IF ~st.bus.created THEN NewMusicGainNode(vol) ELSE st.bus
      step   == sixteenthNoteTime(bpm)
      noteIndex == (st.note % Len(melody)) + 1
      bassIndex == (st.note % Len(bassLine)) + 1
      d      == melody[noteIndex]
      bd     == bassLine[bassIndex]
      mStop  == time + d * step
      bStop  == time + bd * step
      mVoice == MusicVoice("melody", noteIndex - 1, time, mStop)
      bVoice == MusicVoice("bass", bassIndex - 1, time, bStop)
      mOK    == /\ IsFiniteStep(bpm)
                /\ TimeOK(time) /\ TimeOK(time + Attack)
                /\ TimeOK(mStop - Attack) /\ TimeOK(mStop)
      bOK    == TimeOK(time) /\ TimeOK(bStop)
  IN  IF ~mOK
        THEN [st EXCEPT !.bus = bus, !.out = "throw"]
      ELSE IF ~bOK
        THEN [st EXCEPT !.bus = bus, !.out = "throw",
                        !.voices = Append(@, mVoice)]
      ELSE [st EXCEPT !.bus = bus,
                      !.voices = @ \o <<mVoice, bVoice>>,
                      !.next = bStop,
                      !.note = @ + 1]

\* scheduleNote advancing currentNote by two
scheduleNote_SkipIndex(st, bpm, vol) ==
  LET time   == st.next
      bus    == IF ~st.bus.created THEN NewMusicGainNode(vol) ELSE st.bus
      step   == sixteenthNoteTime(bpm)
      noteIndex == (st.note % Len(melody)) + 1
      bassIndex == (st.note % Len(bassLine)) + 1
      d      == melody[noteIndex]
      bd     == bassLine[bassIndex]
      mStop  == time + d * step
      bStop  == time + bd * step
      mVoice == MusicVoice("melody", noteIndex - 1, time, mStop)
      bVoice == MusicVoice("bass", bassIndex - 1, time, bStop)
      mOK    == /\ IsFiniteStep(bpm)
                /\ TimeOK(time) /\ TimeOK(time + Attack)
                /\ TimeOK(mStop - Attack) /\ TimeOK(mStop)
      bOK    == TimeOK(time) /\ TimeOK(bStop)
  IN  IF ~mOK
        THEN [st EXCEPT !.bus = bus, !.out = "throw"]
      ELSE IF ~bOK
        THEN [st EXCEPT !.bus = bus, !.out = "throw",
                        !.voices = Append(@, mVoice)]
      ELSE [st EXCEPT !.bus = bus,
                      !.voices = @ \o <<mVoice, bVoice>>,
                      !.next = mStop,
                      !.note = @ + 2]

\* scheduleNote creating a gain node for the bus at every call
scheduleNote_NewBus(st, bpm, vol) ==
  LET time   == st.next
      bus    == NewMusicGainNode(vol)
      step   == sixteenthNoteTime(bpm)
      noteIndex == (st.note % Len(melody)) + 1
      bassIndex == (st.note % Len(bassLine)) + 1
      d      == melody[noteIndex]
      bd     == bassLine[bassIndex]
      mStop  == time + d * step
      bStop  == time + bd * step
      mVoice == MusicVoice("melody", noteIndex - 1, time, mStop)
      bVoice == MusicVoice("bass", bassIndex - 1, time, bStop)
      mOK    == /\ IsFiniteStep(bpm)
                /\ TimeOK(time) /\ TimeOK(time + Attack)
                /\ TimeOK(mStop - Attack) /\ TimeOK(mStop)
      bOK    == TimeOK(time) /\ TimeOK(bStop)
  IN  IF ~mOK
        THEN [st EXCEPT !.bus = bus, !.out = "throw"]
      ELSE IF ~bOK
        THEN [st EXCEPT !.bus = bus, !.out = "throw",
                        !.voices = Append(@, mVoice)]
      ELSE [st EXCEPT !.bus = bus,
                      !.voices = @ \o <<mVoice, bVoice>>,
                      !.next = mStop,
                      !.note = @ + 1]

scheduleNote(st, bpm, vol) ==
  LET time   == st.next
      bus    == IF ~st.bus.created THEN NewMusicGainNode(vol) ELSE st.bus
      step   == sixteenthNoteTime(bpm)
      noteIndex == (st.note % Len(melody)) + 1
      bassIndex == (st.note % Len(bassLine)) + 1
      d      == melody[noteIndex]
      bd     == bassLine[bassIndex]
      mStop  == time + d * step
      bStop  == time + bd * step
      mVoice == MusicVoice("melody", noteIndex - 1, time, mStop)
      bVoice == MusicVoice("bass", bassIndex - 1, time, bStop)
      mOK    == /\ IsFiniteStep(bpm)
                /\ TimeOK(time) /\ TimeOK(time + Attack)
                /\ TimeOK(mStop - Attack) /\ TimeOK(mStop)
      bOK    == TimeOK(time) /\ TimeOK(bStop)
  IN  IF ~mOK
        THEN [st EXCEPT !.bus = bus, !.out = "throw"]
      ELSE IF ~bOK
        THEN [st EXCEPT !.bus = bus, !.out = "throw",
                        !.voices = Append(@, mVoice)]
      ELSE [st EXCEPT !.bus = bus,
                      !.voices = @ \o <<mVoice, bVoice>>,
                      !.next = mStop,
                      !.note = @ + 1]

(***************************************************************************)
(* The while loop of scheduler: schedule ahead until nextNoteTime reaches  *)
(* currentTime + 0.1 or a call throws.  Without a context scheduleNote     *)
(* returns at once and the clock reads 0: the loop then never ends         *)
(* ("hang") if it is entered.  With a step of length 0 scheduleNote does   *)
(* not move nextNoteTime: the loop creates voices without end, of which    *)
(* the log keeps those of the first two rounds.                            *)
(***************************************************************************)
Behind_Inclusive(next, t) == next <= t + LOOKAHEAD

\* nextNoteTime < currentTime + 0.1
Behind(next, t) == next < t + LOOKAHEAD

RECURSIVE ScheduleAhead(_, _, _, _, _)
ScheduleAhead(st, ctx, t, bpm, vol) ==
  IF ~ctx
    THEN IF Behind(st.next, 0) THEN [st EXCEPT !.out = "hang"] ELSE st
  ELSE IF st.out = "ok" /\ Behind(st.next, t)
    THEN LET r == scheduleNote(st, bpm, vol)
         IN  IF r.out = "ok" /\ sixteenthNoteTime(bpm) = 0
               THEN [scheduleNote(r, bpm, vol) EXCEPT !.out = "hang"]
               ELSE ScheduleAhead(r, ctx, t, bpm, vol)
    ELSE st

(***************************************************************************)
(* window.setTimeout: the new timer's id differs from every pending one    *)
(* and from the id the program still holds (ids are never reused while     *)
(* they can be referred to).                                               *)
(***************************************************************************)
\* The program's one thread is not stuck in a loop that never ends.
Responsive == result # "hang"

\* A call of an exported function, counted.
Call(name) ==
  /\ Responsive
  /\ calls < MaxCalls
  /\ calls' = calls + 1
  /\ op' = name

FreshTimer(ts, held) ==
  CHOOSE n \in 1..(Cardinality(ts) + 2) :
     n # held /\ \A t \in ts : t.id # n

(***************************************************************************)
(* scheduler(), run with musicPlaying true: the loop, then the re-arming   *)
(* of the timer (skipped when the loop threw).  St0 is the engine state    *)
(* the call starts from.                                                   *)
(***************************************************************************)
St0(next, note) ==
  [next |-> next, note |-> note, voices |-> voices, bus |-> musicGainNode,
   out |-> "ok"]

scheduler(st, ts, ctx) ==
  LET r == ScheduleAhead(st, ctx, now, currentBPM, musicVolume)
  IN  /\ nextNoteTime' = r.next
      /\ currentNote' = r.note
      /\ voices' = r.voices
      /\ musicGainNode' = r.bus
      /\ result' = r.out
      /\ IF r.out = "ok"
           THEN LET id == FreshTimer(ts, timerID)
                IN  /\ timerID' = id
                    /\ timers' = ts \cup {[id |-> id, left |-> POLL]}
           ELSE /\ timerID' = timerID
                /\ timers' = ts

(***************************************************************************)
(* The polling timer fires: scheduler() as a timer callback.               *)
(***************************************************************************)
Tick ==
  \E t \in timers :
    /\ Responsive
    /\ t.left = 0
    /\ op' = "tick"
    /\ calls' = calls
    /\ IF ~musicPlaying
         THEN /\ timers' = timers \ {t}
              /\ result' = "ok"
              /\ UNCHANGED <<nextNoteTime, currentNote, voices, musicGainNode,
                             timerID>>
         ELSE scheduler(St0(nextNoteTime, currentNote), timers \ {t}, audioCtx)
    /\ UNCHANGED <<backendOK, audioCtx, ctxState, now, sfxVolume, musicVolume,
                   musicPlaying, currentBPM>>

(***************************************************************************)
(* startMusic                                                              *)
(***************************************************************************)
\* startMusic without its `if (musicPlaying) return`
StartMusic_NoGuard ==
  /\ Call("startMusic")
  /\ IF getContextThrows
       THEN /\ result' = "throw"
            /\ UNCHANGED <<audioCtx, ctxState, musicPlaying, nextNoteTime,
                           currentNote, voices, musicGainNode, timerID, timers>>
     ELSE /\ audioCtx' = TRUE
          /\ ctxState' \in ResumeOutcomes
          /\ musicPlaying' = TRUE
          /\ scheduler(St0(now + StartOffset, 0), timers, TRUE)
  /\ UNCHANGED <<backendOK, now, sfxVolume, musicVolume, currentBPM>>

\* startMusic starting the first note at the current time, without the
\* 0.1 s offset
StartMusic_NoOffset ==
  /\ Call("startMusic")
  /\ IF getContextThrows
       THEN /\ result' = "throw"
            /\ UNCHANGED <<audioCtx, ctxState, musicPlaying, nextNoteTime,
                           currentNote, voices, musicGainNode, timerID, timers>>
     ELSE IF musicPlaying
       THEN /\ audioCtx' = TRUE
            /\ ctxState' \in (IF audioCtx THEN {ctxState}
                                          ELSE {"suspended", "running"})
            /\ result' = "ok"
            /\ UNCHANGED <<musicPlaying, nextNoteTime, currentNote, voices,
                           musicGainNode, timerID, timers>>
     ELSE /\ audioCtx' = TRUE
          /\ ctxState' \in ResumeOutcomes
          /\ musicPlaying' = TRUE
          /\ scheduler(St0(now, 0), timers, TRUE)
  /\ UNCHANGED <<backendOK, now, sfxVolume, musicVolume, currentBPM>>

StartMusic ==
  /\ Call("startMusic")
  /\ IF getContextThrows
       THEN /\ result' = "throw"
            /\ UNCHANGED <<audioCtx, ctxState, musicPlaying, nextNoteTime,
                           currentNote, voices, musicGainNode, timerID, timers>>
     ELSE IF musicPlaying
       THEN /\ audioCtx' = TRUE
            /\ ctxState' \in (IF audioCtx THEN {ctxState}
                                          ELSE {"suspended", "running"})
            /\ result' = "ok"
            /\ UNCHANGED <<musicPlaying, nextNoteTime, currentNote, voices,
                           musicGainNode, timerID, timers>>
     ELSE /\ audioCtx' = TRUE
          /\ ctxState' \in ResumeOutcomes
          /\ musicPlaying' = TRUE
          /\ scheduler(St0(now + StartOffset, 0), timers, TRUE)
  /\ UNCHANGED <<backendOK, now, sfxVolume, musicVolume, currentBPM>>

(***************************************************************************)
(* stopMusic: clearTimeout(timerID) cancels the timer of that id, if it    *)
(* is still pending.                                                       *)
(***************************************************************************)
\* stopMusic without its clearTimeout
StopMusic_NoClear ==
  /\ Call("stopMusic")
  /\ result' = "ok"
  /\ musicPlaying' = FALSE
  /\ UNCHANGED <<backendOK, audioCtx, ctxState, now, sfxVolume, musicVolume,
                 nextNoteTime, timerID, timers, currentNote, musicGainNode,
                 currentBPM, voices>>

\* stopMusic that clears the timer but leaves musicPlaying set
StopMusic_StillPlaying ==
  /\ Call("stopMusic")
  /\ result' = "ok"
  /\ timers' = IF timerID # 0 THEN {t \in timers : t.id # timerID} ELSE timers
  /\ UNCHANGED <<backendOK, audioCtx, ctxState, now, sfxVolume, musicVolume,
                 musicPlaying, nextNoteTime, timerID, currentNote,
                 musicGainNode, currentBPM, voices>>

\* stopMusic that also resets the cursor
StopMusic_ResetCursor ==
  /\ Call("stopMusic")
  /\ result' = "ok"
  /\ musicPlaying' = FALSE
  /\ currentNote' = 0
  /\ nextNoteTime' = 0
  /\ timers' = IF timerID # 0 THEN {t \in timers : t.id # timerID} ELSE timers
  /\ UNCHANGED <<backendOK, audioCtx, ctxState, now, sfxVolume, musicVolume,
                 timerID, musicGainNode, currentBPM, voices>>

StopMusic ==
  /\ Call("stopMusic")
  /\ result' = "ok"
  /\ musicPlaying' = FALSE
  /\ timers' = IF timerID # 0 THEN {t \in timers : t.id # timerID} ELSE timers
  /\ UNCHANGED <<backendOK, audioCtx, ctxState, now, sfxVolume, musicVolume,
                 nextNoteTime, timerID, currentNote, musicGainNode, currentBPM,
                 voices>>

(***************************************************************************)
(* setBPM                                                                  *)
(***************************************************************************)
\* The duration in sixteenth notes of the note a music voice plays.
NoteSteps(v) ==
  IF v.track = "melody" THEN melody[v.idx + 1] ELSE bassLine[v.idx + 1]

\* setBPM that also stretches the voices already scheduled to the new tempo
SetBPM_Retroactive(bpm) ==
  /\ Call("setBPM")
  /\ result' = "ok"
  /\ currentBPM' = bpm
  /\ voices' = [i \in DOMAIN voices |->
                  IF voices[i].bus = "music" /\ IsFiniteStep(bpm)
                    THEN [voices[i] EXCEPT !.stop =
                            voices[i].start
                              + NoteSteps(voices[i]) * sixteenthNoteTime(bpm)]
                    ELSE voices[i]]
  /\ UNCHANGED <<backendOK, audioCtx, ctxState, now, sfxVolume, musicVolume,
                 musicPlaying, nextNoteTime, timerID, timers, currentNote,
                 musicGainNode>>

\* setBPM that also moves the cursor back to the current time
SetBPM_Resync(bpm) ==
  /\ Call("setBPM")
  /\ result' = "ok"
  /\ currentBPM' = bpm
  /\ nextNoteTime' = IF musicPlaying THEN now ELSE nextNoteTime
  /\ UNCHANGED <<backendOK, audioCtx, ctxState, now, sfxVolume, musicVolume,
                 musicPlaying, timerID, timers, currentNote,
                 musicGainNode, voices>>

SetBPM(bpm) ==
  /\ Call("setBPM")
  /\ result' = "ok"
  /\ currentBPM' = bpm
  /\ UNCHANGED <<backendOK, audioCtx, ctxState, now, sfxVolume, musicVolume,
                 musicPlaying, nextNoteTime, timerID, timers, currentNote,
                 musicGainNode, voices>>

(***************************************************************************)
(* setVolumes                                                              *)
(***************************************************************************)
\* setVolumes that also rescales the gain of the effect voices already
\* created (their first control point) to the new sfxVolume
SetVolumes_Rescale(sfx, music) ==
  /\ Call("setVolumes")
  /\ result' = "ok"
  /\ sfxVolume' = sfx
  /\ musicVolume' = music
  /\ musicGainNode' =
       IF musicGainNode.created /\ audioCtx
         THEN [musicGainNode EXCEPT !.target = music, !.rampEnd = now + RampTime]
         ELSE musicGainNode
  /\ voices' = [i \in DOMAIN voices |->
                  IF voices[i].bus = "sfx" /\ voices[i].gain[1].v # 0
                    THEN [voices[i] EXCEPT !.gain[1].v = 2 * sfx]
                    ELSE voices[i]]
  /\ UNCHANGED <<backendOK, audioCtx, ctxState, now, musicPlaying, nextNoteTime,
                 timerID, timers, currentNote, currentBPM>>

\* setVolumes assigning gain.value instead of ramping
SetVolumes_Jump(sfx, music) ==
  /\ Call("setVolumes")
  /\ result' = "ok"
  /\ sfxVolume' = sfx
  /\ musicVolume' = music
  /\ musicGainNode' =
       IF musicGainNode.created /\ audioCtx
         THEN [musicGainNode EXCEPT !.value = music, !.target = music,
                                    !.rampEnd = now]
         ELSE musicGainNode
  /\ UNCHANGED <<backendOK, audioCtx, ctxState, now, musicPlaying, nextNoteTime,
                 timerID, timers, currentNote, currentBPM, voices>>

SetVolumes(sfx, music) ==
  /\ Call("setVolumes")
  /\ result' = "ok"
  /\ sfxVolume' = sfx
  /\ musicVolume' = music
  /\ musicGainNode' =
       IF musicGainNode.created /\ audioCtx
         THEN [musicGainNode EXCEPT !.target = music, !.rampEnd = now + RampTime]
         ELSE musicGainNode
  /\ UNCHANGED <<backendOK, audioCtx, ctxState, now, musicPlaying, nextNoteTime,
                 timerID, timers, currentNote, currentBPM, voices>>

(***************************************************************************)
(* The one-shot effects.  Each runs inside try / catch, so a failing       *)
(* getContext creates nothing and nothing reaches the caller.  osc.start() *)
(* without argument starts at currentTime.                                 *)
(***************************************************************************)
Flavors == {"Vanilla", "Chocolate", "Strawberry", "Mint", "Blueberry", "Lemon",
            "Coffee", "Pistachio", "Mango", "Cookie Dough"}

\* playFlavorSound: duration = 0.15, except LEMON's 0.1
FlavorDuration(f) == IF f = "Lemon" THEN Ms(100) ELSE Ms(150)

\* playFlavorSound: the switch on the flavor (freq in mHz)
FlavorFreq(f) ==
  CASE f = "Vanilla"      -> CHz(NOTES.A4)
    [] f = "Chocolate"    -> CHz(NOTES.A3)
    [] f = "Strawberry"   -> CHz(NOTES.E5)
    [] f = "Mint"         -> CHz(NOTES.A5)
    [] f = "Blueberry"    -> CHz(NOTES.E4)
    [] f = "Lemon"        -> CHz(NOTES.D6)
    [] f = "Coffee"       -> CHz(NOTES.A3) \div 2
    [] f = "Pistachio"    -> CHz(NOTES.C5)
    [] f = "Mango"        -> CHz(NOTES.C5)
    [] f = "Cookie Dough" -> CHz(NOTES.E3)
    [] OTHER              -> Hz(440)

\* the switch without its PISTACHIO case: the flavor keeps the default sine
FlavorType_NoPistachio(f) ==
  CASE f = "Vanilla"      -> "sine"
    [] f = "Chocolate"    -> "square"
    [] f = "Strawberry"   -> "sine"
    [] f = "Mint"         -> "triangle"
    [] f = "Blueberry"    -> "sine"
    [] f = "Lemon"        -> "sawtooth"
    [] f = "Coffee"       -> "sawtooth"
    [] f = "Mango"        -> "sine"
    [] f = "Cookie Dough" -> "square"
    [] OTHER              -> "sine"

FlavorType(f) ==
  CASE f = "Vanilla"      -> "sine"
    [] f = "Chocolate"    -> "square"
    [] f = "Strawberry"   -> "sine"
    [] f = "Mint"         -> "triangle"
    [] f = "Blueberry"    -> "sine"
    [] f = "Lemon"        -> "sawtooth"
    [] f = "Coffee"       -> "sawtooth"
    [] f = "Pistachio"    -> "triangle"
    [] f = "Mango"        -> "sine"
    [] f = "Cookie Dough" -> "square"
    [] OTHER              -> "sine"

\* freq * 0.8
Glide(freq) == (freq * 8) \div 10

\* playSuccessSound: [NOTES.C5, NOTES.E5, NOTES.G5, NOTES.C6]
Arpeggio == << NOTES.C5, NOTES.E5, NOTES.G5, NOTES.C6 >>

\* The voices each effect creates at clock time t with sfxVolume sfx.
PopVoices(t, sfx) ==
  << EffectVoice("pop", 0, "sine", t, t + Ms(100),
                 << SetAt(Hz(600), t), ExpTo(Hz(300), t + Ms(100)) >>,
                 << SetAt(3 * sfx, t), ExpTo(10, t + Ms(100)) >>) >>

\* playFlavorSound with a base frequency detuned by the volume
FlavorVoices_VolumePitch(f, t, sfx) ==
  << EffectVoice(f, 0, FlavorType(f), t, t + FlavorDuration(f),
                 << SetAt(FlavorFreq(f) + sfx, t),
                    ExpTo(Glide(FlavorFreq(f)), t + FlavorDuration(f)) >>,
                 << SetAt(2 * sfx, t), ExpTo(10, t + FlavorDuration(f)) >>) >>

FlavorVoices(f, t, sfx) ==
  << EffectVoice(f, 0, FlavorType(f), t, t + FlavorDuration(f),
                 << SetAt(FlavorFreq(f), t),
                    ExpTo(Glide(FlavorFreq(f)), t + FlavorDuration(f)) >>,
                 << SetAt(2 * sfx, t), ExpTo(10, t + FlavorDuration(f)) >>) >>

\* playSuccessSound with a peak gain of 0.2 not scaled by sfxVolume
SuccessVoices_Unscaled(t, sfx) ==
  [i \in 1..Len(Arpeggio) |->
     LET startTime == t + (i - 1) * Ms(80)
     IN  EffectVoice("success", i - 1, "triangle", startTime,
                     startTime + Ms(400),
                     << Value(CHz(Arpeggio[i]), t) >>,
                     << SetAt(0, startTime), LinTo(200, startTime + Ms(20)),
                        ExpTo(10, startTime + Ms(400)) >>)]

\* playSuccessSound starting its four voices together
SuccessVoices_Together(t, sfx) ==
  [i \in 1..Len(Arpeggio) |->
     EffectVoice("success", i - 1, "triangle", t, t + Ms(400),
                 << Value(CHz(Arpeggio[i]), t) >>,
                 << SetAt(0, t), LinTo(2 * sfx, t + Ms(20)),
                    ExpTo(10, t + Ms(400)) >>)]

SuccessVoices(t, sfx) ==
  [i \in 1..Len(Arpeggio) |->
     LET startTime == t + (i - 1) * Ms(80)
     IN  EffectVoice("success", i - 1, "triangle", startTime,
                     startTime + Ms(400),
                     << Value(CHz(Arpeggio[i]), t) >>,
                     << SetAt(0, startTime), LinTo(2 * sfx, startTime + Ms(20)),
                        ExpTo(10, startTime + Ms(400)) >>)]

ErrorVoices(t, sfx) ==
  << EffectVoice("error", 0, "sawtooth", t, t + Ms(300),
                 << SetAt(Hz(150), t), LinTo(Hz(100), t + Ms(300)) >>,
                 << SetAt(3 * sfx, t), ExpTo(10, t + Ms(300)) >>) >>

\* playGameOverSound fading from the start, without the two holding points
GameOverVoices_NoSustain(t, sfx) ==
  << EffectVoice("gameOver", 0, "square", t, t + Ms(1000),
                 << SetAt(Hz(200), t), SetAt(Hz(150), t + Ms(200)),
                    SetAt(Hz(100), t + Ms(400)) >>,
                 << SetAt(2 * sfx, t), LinTo(0, t + Ms(1000)) >>) >>

GameOverVoices(t, sfx) ==
  << EffectVoice("gameOver", 0, "square", t, t + Ms(1000),
                 << SetAt(Hz(200), t), SetAt(Hz(150), t + Ms(200)),
                    SetAt(Hz(100), t + Ms(400)) >>,
                 << SetAt(2 * sfx, t), SetAt(2 * sfx, t + Ms(200)),
                    SetAt(2 * sfx, t + Ms(400)), LinTo(0, t + Ms(1000)) >>) >>

\* The number of effects triggered so far (each has one voice of rank 0).
EffectCount(vs) == Cardinality({i \in EffectVoices(vs) : vs[i].idx = 0})

PlayEffect(name, new) ==
  /\ EffectCount(voices) < MaxEffects
  /\ Call(name)
  /\ result' = "ok"
  /\ IF getContextThrows
       THEN UNCHANGED <<audioCtx, ctxState, voices>>
       ELSE /\ audioCtx' = TRUE
            /\ ctxState' \in ResumeOutcomes
            /\ voices' = voices \o new
  /\ UNCHANGED <<backendOK, now, sfxVolume, musicVolume, musicPlaying,
                 nextNoteTime, timerID, timers, currentNote, musicGainNode,
                 currentBPM>>

playPopSound == PlayEffect("playPopSound", PopVoices(now, sfxVolume))
playFlavorSound(f) ==
  PlayEffect("playFlavorSound", FlavorVoices(f, now, sfxVolume))
playSuccessSound ==
  PlayEffect("playSuccessSound", SuccessVoices(now, sfxVolume))
playErrorSound == PlayEffect("playErrorSound", ErrorVoices(now, sfxVolume))
playGameOverSound ==
  PlayEffect("playGameOverSound", GameOverVoices(now, sfxVolume))

(***************************************************************************)
(* Time passes by one polling interval.  The audio clock advances only     *)
(* while the context runs; the timers count down on the wall clock.  A     *)
(* due timer need not fire at once (the event loop may be stalled).        *)
(***************************************************************************)
ClockRuns == audioCtx /\ ctxState = "running"

ElapseTo(limit) ==
  /\ Responsive
  /\ ClockRuns \/ \E t \in timers : t.left > 0
  /\ ClockRuns => now + POLL <= limit
  /\ now' = IF ClockRuns THEN now + POLL ELSE now
  /\ timers' = {[t EXCEPT !.left = IF @ > POLL THEN @ - POLL ELSE 0] : t \in timers}
  /\ op' = "elapse"
  /\ result' = "ok"
  /\ calls' = calls
  /\ UNCHANGED <<backendOK, audioCtx, ctxState, sfxVolume, musicVolume,
                 musicPlaying, nextNoteTime, timerID, currentNote,
                 musicGainNode, currentBPM, voices>>

Elapse == ElapseTo(MaxTime)
ElapseFx == ElapseTo(MaxFxPolls * POLL)

(***************************************************************************)
(* The state after the module is loaded (lines 6-14).                      *)
(***************************************************************************)
(***************************************************************************)
(* The game's data (types.ts, constants.ts) and the App component's        *)
(* initial state.  Volumes are in hundredths, as in the engine.            *)
(***************************************************************************)
Difficulties == {"Easy", "Medium", "Hard", "Expert", "Master"}
Containers == {"Cone", "Cup"}
Toppings == {"Sprinkles", "Cherry", "None"}

DIFFICULTY_SETTINGS ==
  [d \in Difficulties |->
     CASE d = "Easy"   -> [maxScoops |-> 1, timeLimit |-> 30, coinMultiplier |-> 1]
       [] d = "Medium" -> [maxScoops |-> 2, timeLimit |-> 20, coinMultiplier |-> 2]
       [] d = "Hard"   -> [maxScoops |-> 3, timeLimit |-> 15, coinMultiplier |-> 3]
       [] d = "Expert" -> [maxScoops |-> 4, timeLimit |-> 12, coinMultiplier |-> 5]
       [] d = "Master" -> [maxScoops |-> 5, timeLimit |-> 10, coinMultiplier |-> 10]]

FALLBACK_CUSTOMER ==
  [name |-> "Timmy",
   order |-> [container |-> "Cone", layers |-> << "Vanilla" >>,
              topping |-> "None"]]

\* customer is null.
NoCustomer ==
  [name |-> "",
   order |-> [container |-> "", layers |-> << >>, topping |-> ""]]

AppDefaults ==
  /\ gameState = "MENU"
  /\ difficulty = "Easy"
  /\ coins = 0
  /\ timer = 0
  /\ customer = NoCustomer
  /\ settings = [sfxVolume |-> 50, bgmVolume |-> 30]
  /\ currentContainer = "Cone"
  /\ currentLayers = << >>
  /\ currentTopping = "None"
  /\ isSuccess = FALSE
  /\ request = 0

Init ==
  /\ backendOK \in BOOLEAN
  /\ audioCtx = FALSE
  /\ ctxState = "none"
  /\ now = 0
  /\ sfxVolume = 50
  /\ musicVolume = 30
  /\ musicPlaying = FALSE
  /\ nextNoteTime = 0
  /\ timerID = 0
  /\ timers = {}
  /\ currentNote = 0
  /\ musicGainNode = NoGainNode
  /\ currentBPM = 110
  /\ voices = << >>
  /\ op = "init"
  /\ result = "ok"
  /\ calls = 0
  /\ AppDefaults

(***************************************************************************)
(* The music side of the engine: the transport, the polling tick and the   *)
(* two setters, with time passing in between.                              *)
(***************************************************************************)
Next ==
  \/ StartMusic /\ UNCHANGED app
  \/ StopMusic /\ UNCHANGED app
  \/ Tick /\ UNCHANGED app
  \/ (\E bpm \in BPMInputs : SetBPM(bpm)) /\ UNCHANGED app
  \/ (\E v \in VolumeInputs : SetVolumes(v[1], v[2])) /\ UNCHANGED app
  \/ Elapse /\ UNCHANGED app

Spec == Init /\ [][Next]_vars

(***************************************************************************)
(* The whole engine: the effect library beside the transport, the tick and *)
(* the setters, over a short stretch of time.                              *)
(***************************************************************************)
\* A call is made while fewer than MaxFxCalls have been.
FxBudget == calls < MaxFxCalls

NextFx ==
  \/ FxBudget /\ playPopSound /\ UNCHANGED app
  \/ FxBudget /\ (\E f \in Flavors : playFlavorSound(f)) /\ UNCHANGED app
  \/ FxBudget /\ playSuccessSound /\ UNCHANGED app
  \/ FxBudget /\ playErrorSound /\ UNCHANGED app
  \/ FxBudget /\ playGameOverSound /\ UNCHANGED app
  \/ FxBudget /\ (\E v \in VolumeInputs : SetVolumes(v[1], v[2]))
       /\ UNCHANGED app
  \/ FxBudget /\ (\E bpm \in BPMInputs : SetBPM(bpm)) /\ UNCHANGED app
  \/ FxBudget /\ StartMusic /\ UNCHANGED app
  \/ FxBudget /\ StopMusic /\ UNCHANGED app
  \/ Tick /\ UNCHANGED app
  \/ ElapseFx /\ UNCHANGED app

SpecFx == Init /\ [][NextFx]_vars

(***************************************************************************)
(* The music left to play: startMusic, then the polling timer firing as    *)
(* soon as it is due (every 25 ms) while the clock advances MaxRunPolls    *)
(* polling periods.                                                        *)
(***************************************************************************)
\* No timer is due.
Prompt == \A t \in timers : t.left > 0

ElapseRun == Prompt /\ ElapseTo(MaxRunPolls * POLL)

NextRun ==
  \/ StartMusic /\ UNCHANGED app
  \/ Tick /\ UNCHANGED app
  \/ ElapseRun /\ UNCHANGED app

SpecRun == Init /\ [][NextRun]_vars

(***************************************************************************)
(* The App component.  A handler makes several engine calls in a row, so   *)
(* the engine functions are given here on a record e of the engine's       *)
(* variables; Commit stores the record a handler ends with.  A handler     *)
(* runs at one instant of the audio clock.                                 *)
(***************************************************************************)
\* At most MaxAppCalls calls of the player's handlers are followed.
MaxAppCalls == 4

EngineNow ==
  [ctx |-> audioCtx, state |-> ctxState, sfx |-> sfxVolume,
   music |-> musicVolume, playing |-> musicPlaying, next |-> nextNoteTime,
   tid |-> timerID, timers |-> timers, note |-> currentNote,
   bus |-> musicGainNode, bpm |-> currentBPM, voices |-> voices, out |-> "ok"]

Commit(e) ==
  /\ audioCtx' = e.ctx
  /\ ctxState' = e.state
  /\ sfxVolume' = e.sfx
  /\ musicVolume' = e.music
  /\ musicPlaying' = e.playing
  /\ nextNoteTime' = e.next
  /\ timerID' = e.tid
  /\ timers' = e.timers
  /\ currentNote' = e.note
  /\ musicGainNode' = e.bus
  /\ currentBPM' = e.bpm
  /\ voices' = e.voices
  /\ result' = e.out
  /\ UNCHANGED <<backendOK, now>>

\* getContext() on e: it throws, or leaves a context that resume() may or
\* may not have set running yet.
Throws(e) == ~e.ctx /\ ~backendOK
Resume(e) == IF e.ctx /\ e.state = "running" THEN {"running"}
                                             ELSE {"suspended", "running"}

\* A one-shot effect (its body is inside try / catch).
Effect(e, new, r) ==
  IF Throws(e) THEN e
  ELSE [e EXCEPT !.ctx = TRUE, !.state = r, !.voices = @ \o new]

setBPM(e, bpm) == [e EXCEPT !.bpm = bpm]

setVolumes(e, sfx, music) ==
  [e EXCEPT !.sfx = sfx, !.music = music,
            !.bus = IF @.created /\ e.ctx
                      THEN [@ EXCEPT !.target = music,
                                     !.rampEnd = now + RampTime]
                      ELSE @]

startMusic(e, r) ==
  IF Throws(e) THEN [e EXCEPT !.out = "throw"]
  ELSE IF e.playing
    THEN [e EXCEPT !.ctx = TRUE, !.state = IF e.ctx THEN @ ELSE r]
  ELSE LET s == ScheduleAhead([next |-> now + StartOffset, note |-> 0,
                               voices |-> e.voices, bus |-> e.bus,
                               out |-> "ok"],
                              TRUE, now, e.bpm, e.music)
           id == FreshTimer(e.timers, e.tid)
       IN  [e EXCEPT !.ctx = TRUE, !.state = r, !.playing = TRUE,
                     !.next = s.next, !.note = s.note, !.voices = s.voices,
                     !.bus = s.bus, !.out = s.out,
                     !.tid = IF s.out = "ok" THEN id ELSE @,
                     !.timers = IF s.out = "ok"
                                  THEN @ \cup {[id |-> id, left |-> POLL]}
                                  ELSE @]

stopMusic(e) ==
  [e EXCEPT !.playing = FALSE,
            !.timers = IF e.tid # 0 THEN {t \in @ : t.id # e.tid} ELSE @]

\* A call of one of the player's handlers, counted; a step of the
\* application that is not one.
AppCall(name) ==
  /\ calls < MaxAppCalls
  /\ calls' = calls + 1
  /\ op' = name
AppStep(name) ==
  /\ calls' = calls
  /\ op' = name

(***************************************************************************)
(* generateCustomerOrder(difficulty).  key: process.env.API_KEY is set.    *)
(* reply: what the request came to, "rejected" (generateContent threw),    *)
(* "empty" (no text), "garbage" (a text that is not JSON) or "json" (the   *)
(* JSON text of reply.customer).                                           *)
(***************************************************************************)
numScoops(d) ==
  CASE d = "Medium" -> 2
    [] d = "Hard"   -> 3
    [] d = "Expert" -> 4
    [] d = "Master" -> 5
    [] OTHER        -> 1

\* JSON.parse(text): the value, or a SyntaxError.
JSONParse(reply) ==
  IF reply.kind = "json" THEN [ok |-> TRUE, value |-> reply.customer]
                         ELSE [ok |-> FALSE, value |-> NoCustomer]

generateCustomerOrder_ParseUncaught(d, key, reply) ==
  IF ~key THEN FALLBACK_CUSTOMER
  ELSE IF reply.kind = "rejected" THEN FALLBACK_CUSTOMER
  ELSE IF reply.kind = "empty" THEN FALLBACK_CUSTOMER
  ELSE JSONParse(reply).value

generateCustomerOrder(d, key, reply) ==
  IF ~key THEN FALLBACK_CUSTOMER
  ELSE IF reply.kind = "rejected" THEN FALLBACK_CUSTOMER
  ELSE IF reply.kind = "empty" THEN FALLBACK_CUSTOMER
  ELSE IF ~JSONParse(reply).ok THEN FALLBACK_CUSTOMER
  ELSE JSONParse(reply).value

\* The customer the service generates at n scoops, and the replies a
\* request at n scoops may get.
Generated(n) ==
  [name |-> "Luna",
   order |-> [container |-> "Cup", layers |-> [i \in 1..n |-> "Chocolate"],
              topping |-> "None"]]
Replies(n) ==
  {[kind |-> k, customer |-> NoCustomer] :
      k \in {"rejected", "empty", "garbage"}}
    \cup {[kind |-> "json", customer |-> Generated(n)]}

(***************************************************************************)
(* The handlers.                                                           *)
(***************************************************************************)
\* The settings the sliders are moved to, and those found stored at mount.
SettingsInputs ==
  {[sfxVolume |-> 50, bgmVolume |-> 0], [sfxVolume |-> 50, bgmVolume |-> 30]}
\* The difficulties the player starts a game at.
AppDifficulties == {"Easy", "Master"}
\* The flavours the player picks.
AppFlavors == {"Vanilla", "Chocolate"}
\* The toppings the player picks.
AppToppings == {"Cherry", "None"}

\* startGame(diff)
startGame(diff) ==
  /\ gameState = "MENU"
  /\ AppCall("startGame")
  /\ \E r1 \in Resume(EngineNow) :
       LET e1 == setBPM(Effect(EngineNow, PopVoices(now, sfxVolume), r1), 110)
       IN  \E r2 \in Resume(e1) :
             LET e2 == IF settings.bgmVolume > 0 THEN startMusic(e1, r2)
                                                 ELSE e1
             IN  /\ Commit(e2)
                 /\ IF e2.out = "throw"
                      THEN UNCHANGED <<difficulty, coins, isSuccess, gameState>>
                      ELSE /\ difficulty' = diff
                           /\ coins' = 0
                           /\ isSuccess' = FALSE
                           /\ gameState' = "LOADING_ORDER"
  /\ UNCHANGED <<timer, customer, settings, currentContainer, currentLayers,
                 currentTopping, request>>

\* updateSettings(newSettings)
updateSettings(new) ==
  /\ AppCall("updateSettings")
  /\ settings' = new
  /\ LET e1 == setVolumes(EngineNow, new.sfxVolume, new.bgmVolume)
     IN  IF new.bgmVolume > 0
           THEN \E r \in Resume(e1) : Commit(startMusic(e1, r))
           ELSE Commit(stopMusic(e1))
  /\ UNCHANGED <<gameState, difficulty, coins, timer, customer,
                 currentContainer, currentLayers, currentTopping, isSuccess,
                 request>>

\* The Timer Logic effect's tempo for a countdown value.
TimerTempo_Late(t) == IF t <= 5 /\ t > 0 THEN 150 ELSE 110

TimerTempo(t) == IF t <= 10 /\ t > 0 THEN 150 ELSE 110

\* The Fetch Order effect: the order arrives, the build area and the
\* countdown are reset and the game plays; the Timer Logic effect follows.
fetchOrder ==
  /\ gameState = "LOADING_ORDER"
  /\ AppStep("fetchOrder")
  /\ \E key \in BOOLEAN, reply \in Replies(numScoops(difficulty)) :
       /\ customer' = generateCustomerOrder(difficulty, key, reply)
       /\ request' = IF key THEN numScoops(difficulty) ELSE 0
  /\ currentContainer' = "Cone"
  /\ currentLayers' = << >>
  /\ currentTopping' = "None"
  /\ isSuccess' = FALSE
  /\ timer' = DIFFICULTY_SETTINGS[difficulty].timeLimit
  /\ gameState' = "PLAYING"
  /\ Commit(setBPM(EngineNow, TimerTempo(timer')))
  /\ UNCHANGED <<difficulty, coins, settings>>

\* handleGameOver(), on the engine record.
handleGameOver(e, r) ==
  setBPM(Effect(e, GameOverVoices(now, e.sfx), r), 110)

\* The countdown's timeout fires, and the Timer Logic effect runs on the
\* new value: the tempo, and the end of the game at 0.
countdown ==
  /\ gameState = "PLAYING"
  /\ timer > 0
  /\ AppStep("countdown")
  /\ timer' = timer - 1
  /\ LET e1 == setBPM(EngineNow, TimerTempo(timer'))
     IN  IF timer' = 0
           THEN /\ \E r \in Resume(e1) : Commit(handleGameOver(e1, r))
                /\ gameState' = "GAME_OVER"
           ELSE /\ Commit(e1)
                /\ gameState' = gameState
  /\ UNCHANGED <<difficulty, coins, customer, settings, currentContainer,
                 currentLayers, currentTopping, isSuccess, request>>

\* addFlavor(f)
addFlavor_CapPlusTwo(f) ==
  /\ gameState = "PLAYING"
  /\ AppCall("addFlavor")
  /\ \E r \in Resume(EngineNow) :
       IF Len(currentLayers) < DIFFICULTY_SETTINGS[difficulty].maxScoops + 2
         THEN /\ Commit(Effect(EngineNow, FlavorVoices(f, now, sfxVolume), r))
              /\ currentLayers' = Append(currentLayers, f)
         ELSE /\ Commit(Effect(EngineNow, ErrorVoices(now, sfxVolume), r))
              /\ currentLayers' = currentLayers
  /\ UNCHANGED <<gameState, difficulty, coins, timer, customer, settings,
                 currentContainer, currentTopping, isSuccess, request>>

addFlavor(f) ==
  /\ gameState = "PLAYING"
  /\ AppCall("addFlavor")
  /\ \E r \in Resume(EngineNow) :
       IF Len(currentLayers) < DIFFICULTY_SETTINGS[difficulty].maxScoops + 1
         THEN /\ Commit(Effect(EngineNow, FlavorVoices(f, now, sfxVolume), r))
              /\ currentLayers' = Append(currentLayers, f)
         ELSE /\ Commit(Effect(EngineNow, ErrorVoices(now, sfxVolume), r))
              /\ currentLayers' = currentLayers
  /\ UNCHANGED <<gameState, difficulty, coins, timer, customer, settings,
                 currentContainer, currentTopping, isSuccess, request>>

setContainerWithSound(c) ==
  /\ gameState = "PLAYING"
  /\ AppCall("setContainerWithSound")
  /\ \E r \in Resume(EngineNow) :
       Commit(Effect(EngineNow, PopVoices(now, sfxVolume), r))
  /\ currentContainer' = c
  /\ UNCHANGED <<gameState, difficulty, coins, timer, customer, settings,
                 currentLayers, currentTopping, isSuccess, request>>

setToppingWithSound(t) ==
  /\ gameState = "PLAYING"
  /\ AppCall("setToppingWithSound")
  /\ \E r \in Resume(EngineNow) :
       Commit(Effect(EngineNow, PopVoices(now, sfxVolume), r))
  /\ currentTopping' = t
  /\ UNCHANGED <<gameState, difficulty, coins, timer, customer, settings,
                 currentContainer, currentLayers, isSuccess, request>>

\* The Trash button.
onClear ==
  /\ gameState = "PLAYING"
  /\ AppCall("onClear")
  /\ \E r \in Resume(EngineNow) :
       Commit(Effect(EngineNow, PopVoices(now, sfxVolume), r))
  /\ currentLayers' = << >>
  /\ currentTopping' = "None"
  /\ UNCHANGED <<gameState, difficulty, coins, timer, customer, settings,
                 currentContainer, isSuccess, request>>

\* The built ice cream is the customer's order.
Correct ==
  /\ customer.order.container = currentContainer
  /\ customer.order.topping = currentTopping
  /\ Len(customer.order.layers) = Len(currentLayers)
  /\ \A i \in DOMAIN customer.order.layers :
        customer.order.layers[i] = currentLayers[i]

\* handleServe()
handleServe_FlatReward ==
  /\ gameState = "PLAYING"
  /\ customer # NoCustomer
  /\ AppCall("handleServe")
  /\ gameState' = "RESULT"
  /\ \E r \in Resume(EngineNow) :
       IF Correct
         THEN /\ Commit(Effect(EngineNow, SuccessVoices(now, sfxVolume), r))
              /\ isSuccess' = TRUE
              /\ coins' = coins + 10
         ELSE /\ Commit(Effect(EngineNow, ErrorVoices(now, sfxVolume), r))
              /\ isSuccess' = FALSE
              /\ coins' = coins
  /\ UNCHANGED <<difficulty, timer, customer, settings, currentContainer,
                 currentLayers, currentTopping, request>>

handleServe ==
  /\ gameState = "PLAYING"
  /\ customer # NoCustomer
  /\ AppCall("handleServe")
  /\ gameState' = "RESULT"
  /\ \E r \in Resume(EngineNow) :
       IF Correct
         THEN /\ Commit(Effect(EngineNow, SuccessVoices(now, sfxVolume), r))
              /\ isSuccess' = TRUE
              /\ coins' = coins
                   + 10 * DIFFICULTY_SETTINGS[difficulty].coinMultiplier
         ELSE /\ Commit(Effect(EngineNow, ErrorVoices(now, sfxVolume), r))
              /\ isSuccess' = FALSE
              /\ coins' = coins
  /\ UNCHANGED <<difficulty, timer, customer, settings, currentContainer,
                 currentLayers, currentTopping, request>>

\* The 2 s timeout handleServe set fires: the next order after a success,
\* handleGameOver() after a wrong order.
resultTimeout ==
  /\ gameState = "RESULT"
  /\ AppStep("resultTimeout")
  /\ IF isSuccess
       THEN /\ gameState' = "LOADING_ORDER"
            /\ Commit(EngineNow)
       ELSE /\ gameState' = "GAME_OVER"
            /\ \E r \in Resume(EngineNow) : Commit(handleGameOver(EngineNow, r))
  /\ UNCHANGED <<difficulty, coins, timer, customer, settings,
                 currentContainer, currentLayers, currentTopping, isSuccess,
                 request>>

\* "Back to Menu" on the game-over screen.
backToMenu ==
  /\ gameState = "GAME_OVER"
  /\ AppStep("backToMenu")
  /\ gameState' = "MENU"
  /\ Commit(EngineNow)
  /\ UNCHANGED <<difficulty, coins, timer, customer, settings,
                 currentContainer, currentLayers, currentTopping, isSuccess,
                 request>>

\* The component is mounted: the stored settings, if any, are loaded and
\* handed to setVolumes.
InitApp ==
  /\ backendOK \in BOOLEAN
  /\ audioCtx = FALSE
  /\ ctxState = "none"
  /\ now = 0
  /\ musicPlaying = FALSE
  /\ nextNoteTime = 0
  /\ timerID = 0
  /\ timers = {}
  /\ currentNote = 0
  /\ musicGainNode = NoGainNode
  /\ currentBPM = 110
  /\ voices = << >>
  /\ op = "init"
  /\ result = "ok"
  /\ calls = 0
  /\ gameState = "MENU"
  /\ difficulty = "Easy"
  /\ coins = 0
  /\ timer = 0
  /\ customer = NoCustomer
  /\ settings \in SettingsInputs
  /\ sfxVolume = settings.sfxVolume
  /\ musicVolume = settings.bgmVolume
  /\ currentContainer = "Cone"
  /\ currentLayers = << >>
  /\ currentTopping = "None"
  /\ isSuccess = FALSE
  /\ request = 0

NextApp ==
  \/ \E d \in AppDifficulties : startGame(d)
  \/ \E s \in SettingsInputs : updateSettings(s)
  \/ fetchOrder
  \/ countdown
  \/ \E f \in AppFlavors : addFlavor(f)
  \/ \E c \in Containers : setContainerWithSound(c)
  \/ \E t \in AppToppings : setToppingWithSound(t)
  \/ onClear
  \/ handleServe
  \/ resultTimeout
  \/ backToMenu

SpecApp == InitApp /\ [][NextApp]_vars

(***************************************************************************)
(* Properties.                                                             *)
(***************************************************************************)
\* The step is a call of the exported function `name`.
Called(name) == op' = name /\ calls' = calls + 1

\* The voices a step adds to the log, and those among them on the music bus.
Added == (DOMAIN voices') \ (DOMAIN voices)
AddedMusic == {i \in Added : voices'[i].bus = "music"}

\* The voices already in the log are still there, unaltered.
VoicesKept ==
  /\ Len(voices') >= Len(voices)
  /\ \A i \in DOMAIN voices : voices'[i] = voices[i]

C2_OneTimerAndRestart ==
  /\ Cardinality(timers) <= 1
  /\ [][/\ Cardinality(timers') <= 1
        /\ op' = "tick" => \A t \in timers' : t.left = POLL
        /\ (op = "stopMusic" /\ Called("startMusic") /\ result' = "ok") =>
              /\ currentNote' = 0
              /\ nextNoteTime' = now' + Ms(100)
              /\ musicPlaying']_vars

\* A restart right after a stop, in a session that had scheduled notes and
\* at a clock time other than 0.
C2_Witness ==
  /\ op = "startMusic"
  /\ musicPlaying
  /\ currentNote = 0
  /\ Len(voices) > 0
  /\ now > 0
  /\ nextNoteTime = now + Ms(100)

\* C3 (as claimed): the stored tempo is > 0 in every reachable state, a
\* setBPM(bpm) with bpm <= 0 being rejected with an error.
C3_TempoPositive == currentBPM > 0

\* C4 (as claimed): sfxVolume and musicVolume lie in [0,1] in every
\* reachable state, an out-of-range setVolumes being rejected.
C4_VolumesInRange ==
  /\ sfxVolume \in 0..100
  /\ musicVolume \in 0..100

\* C5: stopMusic cancels the polling timer and clears musicPlaying without
\* touching any committed voice, and while music is stopped no step other
\* than startMusic adds a music voice.
C5_StopHaltsScheduling ==
  [][/\ Called("stopMusic") =>
           /\ voices' = voices
           /\ ~musicPlaying'
           /\ timers' = {}
     /\ (~musicPlaying /\ op' # "startMusic") =>
           /\ AddedMusic = {}
           /\ VoicesKept]_vars

\* Time passes after a stop that followed the scheduling of voices.
C5_Witness ==
  /\ op = "elapse"
  /\ ~musicPlaying
  /\ Len(voices) > 0
  /\ timers = {}
  /\ \E i \in DOMAIN voices : voices[i].stop > now

\* C6: setBPM changes neither the voices already scheduled nor the cursor
\* index nor nextNoteTime; no later step alters a scheduled voice, and the
\* voices a step adds last their note's steps at the tempo then in force.
C6_TempoNotRetroactive ==
  [][/\ Called("setBPM") =>
           /\ voices' = voices
           /\ currentNote' = currentNote
           /\ nextNoteTime' = nextNoteTime
     /\ VoicesKept
     /\ \A i \in AddedMusic :
           voices'[i].stop - voices'[i].start
             = NoteSteps(voices'[i]) * sixteenthNoteTime(currentBPM')]_vars

\* Two melody voices of one log scheduled at different step lengths: the
\* tempo was changed between two scheduling steps.
C6_Witness ==
  \E i, j \in DOMAIN voices :
    /\ i < j
    /\ voices[i].track = "melody" /\ voices[j].track = "melody"
    /\ (voices[i].stop - voices[i].start) * NoteSteps(voices[j])
         # (voices[j].stop - voices[j].start) * NoteSteps(voices[i])
    /\ voices[i].stop > voices[i].start
    /\ voices[j].stop > voices[j].start

\* C7 (as claimed): when the audio backend cannot be created, no operation
\* throws into its caller and no voice is created.
C7_MutedNeverThrows ==
  ~backendOK => result = "ok" /\ Len(voices) = 0 /\ ~musicPlaying

\* C8 (as claimed): no step creates a music voice whose start time has
\* already passed.
C8_NoStaleVoice ==
  [][\A i \in AddedMusic : voices'[i].start >= now']_vars

\* C9 (as claimed): at a stopMusic call every committed music voice stops
\* at most one lookahead window (100 ms) after the call.
C9_TailWithinLookahead ==
  op = "stopMusic" =>
    \A i \in MusicVoices(voices) : voices[i].stop <= now + Ms(100)

\* C9 (amended): at a stopMusic call every committed music voice starts
\* less than one lookahead window (100 ms) after the call.
C9_TailStartsWithinLookahead ==
  op = "stopMusic" =>
    \A i \in MusicVoices(voices) : voices[i].start < now + Ms(100)

\* A stop while a committed voice has not started yet.
C9_Witness ==
  /\ op = "stopMusic"
  /\ \E i \in MusicVoices(voices) : voices[i].start > now

\* C10: for every tempo bpm > 0 the step lasts 60/bpm/4 s (0 for an
\* infinite tempo), and a voice scheduled while that tempo is in force
\* lasts its note's durationSteps times 60/bpm/4.
C10_DurationFromTempo ==
  /\ \A bpm \in BPMInputs :
        /\ (bpm > 0 /\ bpm # Infinity) =>
              sixteenthNoteTime(bpm) * 4 * bpm = Seconds(60)
        /\ bpm = Infinity => sixteenthNoteTime(bpm) = 0
  /\ [][currentBPM > 0 =>
          \A i \in AddedMusic :
             IF currentBPM = Infinity
               THEN voices'[i].stop = voices'[i].start
               ELSE (voices'[i].stop - voices'[i].start) * 4 * currentBPM
                      = NoteSteps(voices'[i]) * Seconds(60)]_vars

\* A tick at 150 BPM that scheduled the second note of a session.
C10_Witness ==
  /\ op = "tick"
  /\ currentBPM = 150
  /\ currentNote >= 2
  /\ \E i \in MusicVoices(voices) :
        /\ voices[i].track = "melody"
        /\ voices[i].idx = 1
        /\ voices[i].stop - voices[i].start = 2 * Ms(100)

\* The step is a call of an effect, and it gets an audio context.
EffectNames == {"playPopSound", "playFlavorSound", "playSuccessSound",
                "playErrorSound", "playGameOverSound"}
Triggered(name) == Called(name) /\ ~getContextThrows

\* The values of the control points of a voice's gain.
GainValues(v) == {v.gain[k].v : k \in DOMAIN v.gain}

\* C11 (as claimed): with sfxVolume 0, the success effect creates four
\* voices and no control point of their gain envelopes is non-zero.
C11_AllGainZero ==
  [][(Triggered("playSuccessSound") /\ sfxVolume = 0) =>
        /\ Cardinality(Added) = 4
        /\ \A i \in Added : GainValues(voices'[i]) = {0}]_vars

\* C11 (amended): with sfxVolume 0, the success effect creates four voices
\* whose gain control points are 0 except the last one, the fixed 0.01
\* target of the exponential decay, reached at the voice's stop time.
C11_MutedSuccess ==
  [][(Triggered("playSuccessSound") /\ sfxVolume = 0) =>
        /\ Cardinality(Added) = 4
        /\ \A i \in Added :
             LET g == voices'[i].gain
             IN  /\ \A k \in 1..(Len(g) - 1) : g[k].v = 0
                 /\ g[Len(g)] = ExpTo(10, voices'[i].stop)]_vars

\* The success effect was triggered after setVolumes(0, 0).
C11_Witness ==
  /\ op = "playSuccessSound"
  /\ sfxVolume = 0
  /\ musicVolume = 0
  /\ Cardinality({i \in EffectVoices(voices) :
                     voices[i].track = "success"}) = 4

\* The factor of sfxVolume in the gain of an effect: 0.3 for the pop and
\* error effects, 0.2 for the others.
GainFactor(track) == IF track \in {"pop", "error"} THEN 3 ELSE 2

\* C12: the gain of every effect voice is its effect's factor times the
\* sfxVolume in force when it is triggered (beside the fixed 0 and 0.01
\* control points), and setVolumes, like every other step, leaves the
\* voices already created as they are.
C12_GainScaledAtTrigger ==
  [][/\ \A n \in EffectNames : Triggered(n) =>
           \A i \in Added :
              LET scaled == GainFactor(voices'[i].track) * sfxVolume
              IN  /\ scaled \in GainValues(voices'[i])
                  /\ GainValues(voices'[i]) \subseteq {scaled, 0, 10}
     /\ Called("setVolumes") => voices' = voices
     /\ VoicesKept]_vars

\* A pop created at the default sfxVolume 0.5, after which setVolumes has
\* set another sfxVolume.
C12_Witness ==
  /\ op = "setVolumes"
  /\ sfxVolume # 50
  /\ \E i \in EffectVoices(voices) :
        voices[i].track = "pop" /\ voices[i].gain[1].v = 150

\* The (waveform, base frequency, duration) profile of a voice.
Profile(v) == << v.wave, v.freq[1].v, v.stop - v.start >>

\* The flavor voices in the log.
FlavorVoiceIdx == {i \in EffectVoices(voices) : voices[i].track \in Flavors}

\* C13: every voice of the build-item effect for a flavor has the profile
\* that flavor has with the default volumes at clock time 0, and so the same
\* profile as every other voice of that flavor, whatever the volumes, the
\* tempo, the transport state and the earlier calls were at its trigger.
C13_ProfileDeterministic ==
  /\ \A i \in FlavorVoiceIdx :
        Profile(voices[i]) = Profile(FlavorVoices(voices[i].track, 0, 50)[1])
  /\ \A i, j \in FlavorVoiceIdx :
        voices[i].track = voices[j].track =>
           Profile(voices[i]) = Profile(voices[j])

\* A flavor triggered while the music plays at another tempo and after the
\* volumes were changed.
C13_Witness ==
  /\ op = "playFlavorSound"
  /\ musicPlaying
  /\ (currentBPM = 150 \/ sfxVolume = 100)
  /\ FlavorVoiceIdx # {}

\* The profile table of playFlavorSound.
FlavorProfile(f) == << FlavorType(f), FlavorFreq(f), FlavorDuration(f) >>

\* C14: there are ten flavors, their profiles are pairwise distinct, every
\* voice of the build-item effect has its flavor's profile, and its
\* frequency goes from the base frequency at its start to a lower
\* frequency at its stop.
C14_TenDistinctProfiles ==
  /\ Cardinality(Flavors) = 10
  /\ \A f, g \in Flavors : f # g => FlavorProfile(f) # FlavorProfile(g)
  /\ \A i \in FlavorVoiceIdx :
        LET v == voices[i]
        IN  /\ Profile(v) = FlavorProfile(v.track)
            /\ Len(v.freq) = 2
            /\ v.freq[1].t = v.start
            /\ v.freq[2].k = "exp"
            /\ v.freq[2].t = v.stop
            /\ v.freq[2].v < v.freq[1].v

\* A pistachio scoop has sounded: its profile differs from the mango's,
\* which has the same base frequency, by the waveform only.
C14_Witness ==
  /\ op = "playFlavorSound"
  /\ \E i \in FlavorVoiceIdx :
        /\ voices[i].track = "Pistachio"
        /\ voices[i].wave = "triangle"
        /\ voices[i].freq[1].v = FlavorFreq("Mango")

\* C15 (as claimed): an effect trigger or startMusic made while the context
\* is suspended, and whose resume leaves it suspended, creates no voice and
\* does not start the transport.
C15_SuspendedCallDropped ==
  [][((\E n \in EffectNames \cup {"startMusic"} : Called(n))
       /\ audioCtx /\ ctxState = "suspended" /\ ctxState' = "suspended") =>
        /\ voices' = voices
        /\ musicPlaying' = musicPlaying
        /\ timers' = timers]_vars

\* The melody voices scheduled so far.
MelodyCount ==
  Cardinality({i \in MusicVoices(voices) : voices[i].track = "melody"})

\* The onset, in steps, of the k-th note of the cyclically repeated melody.
RECURSIVE OnsetSteps(_)
OnsetSteps(k) ==
  IF k = 0 THEN 0
  ELSE OnsetSteps(k - 1) + melody[((k - 1) % Len(melody)) + 1]

\* The notes of the repeated melody that start, at 110 BPM and 0.1 s after
\* startMusic, before t plus the lookahead (three cycles are 26 s).
DueBy(t) ==
  Cardinality({k \in 0..(3 * Len(melody)) :
     StartOffset + OnsetSteps(k) * sixteenthNoteTime(110) < t + LOOKAHEAD})

\* The music was started at clock time 0 on a running context and the
\* timer has fired at the current clock time.
Polled == musicPlaying /\ ClockRuns /\ Prompt /\ result = "ok"

\* C16: at 110 BPM with a tick every 25 ms, the melody voices scheduled
\* after each tick are the notes of the repeated melody table that start
\* before the elapsed time plus the lookahead; after 10 s that is 28 voices,
\* within two notes of 10 / (60/110/4 * 64/23) = 26.35.
C16_MelodyVoiceCount ==
  Polled =>
    /\ MelodyCount = DueBy(now)
    /\ now = Seconds(10) =>
         LET cycle == OnsetSteps(Len(melody)) * sixteenthNoteTime(110)
             diff  == MelodyCount * cycle - Seconds(10) * Len(melody)
         IN  /\ MelodyCount = 28
             /\ diff <= 2 * cycle
             /\ -diff <= 2 * cycle

\* Ten seconds after startMusic, the tick of that instant done.
C16_Witness ==
  /\ Polled
  /\ op = "tick"
  /\ now = Seconds(10)
  /\ currentBPM = 110
  /\ MelodyCount = 28
  /\ OnsetSteps(Len(melody)) = 64

\* C17: the success effect creates exactly four voices, all triangle, each
\* of one fixed frequency higher than the one before, starting 0, 80, 160
\* and 240 ms after the trigger time and stopping 400 ms after their start.
C17_SuccessArpeggio ==
  [][Triggered("playSuccessSound") =>
        /\ Cardinality(Added) = 4
        /\ \A j \in 1..4 :
             LET v == voices'[Len(voices) + j]
             IN  /\ v.wave = "triangle"
                 /\ v.start = now + (j - 1) * Ms(80)
                 /\ v.stop = v.start + Ms(400)
                 /\ Len(v.freq) = 1
                 /\ j > 1 => v.freq[1].v > voices'[Len(voices) + j - 1].freq[1].v]_vars

\* The success effect triggered after the clock has advanced.
C17_Witness ==
  /\ op = "playSuccessSound"
  /\ now > 0
  /\ Len(voices) >= 4
  /\ voices[Len(voices)].track = "success"
  /\ voices[Len(voices)].start = now + Ms(240)
  /\ voices[Len(voices)].stop = now + Ms(640)

\* C18: the session-end effect creates exactly one voice, square, starting
\* at the trigger time and stopping 1 s later, with frequency 200 Hz from
\* +0 ms, 150 Hz from +200 ms and 100 Hz from +400 ms, and gain set to
\* 0.2 * sfxVolume at +0, +200 and +400 ms and then going linearly to 0 at
\* +1 s.
C18_SessionEnd ==
  [][Triggered("playGameOverSound") =>
        /\ Cardinality(Added) = 1
        /\ LET v == voices'[Len(voices')]
           IN  /\ v.wave = "square"
               /\ v.start = now
               /\ v.stop = now + Seconds(1)
               /\ v.freq = << SetAt(Hz(200), now), SetAt(Hz(150), now + Ms(200)),
                              SetAt(Hz(100), now + Ms(400)) >>
               /\ v.gain = << SetAt(2 * sfxVolume, now),
                              SetAt(2 * sfxVolume, now + Ms(200)),
                              SetAt(2 * sfxVolume, now + Ms(400)),
                              LinTo(0, now + Seconds(1)) >>]_vars

\* The session-end effect triggered at an audible volume after the clock
\* has advanced.
C18_Witness ==
  /\ op = "playGameOverSound"
  /\ now > 0
  /\ sfxVolume > 0
  /\ Len(voices) >= 1
  /\ voices[Len(voices)].track = "gameOver"
  /\ voices[Len(voices)].stop = now + Seconds(1)

\* C19: when musicGainNode exists, setVolumes leaves the value the bus gain
\* was set to, makes the new musicVolume the target of a ramp ending 0.1 s
\* after the call, and leaves every melody and bass voice as it was.
C19_BusRamp ==
  [][(Called("setVolumes") /\ musicGainNode.created /\ audioCtx) =>
        /\ musicGainNode'.created
        /\ musicGainNode'.value = musicGainNode.value
        /\ musicGainNode'.target = musicVolume'
        /\ musicGainNode'.rampEnd = now + Ms(100)
        /\ Len(voices') = Len(voices)
        /\ \A i \in MusicVoices(voices) : voices'[i] = voices[i]]_vars

\* setVolumes called while notes are scheduled, with a musicVolume other
\* than the one the bus was created with.
C19_Witness ==
  /\ op = "setVolumes"
  /\ musicGainNode.created
  /\ musicGainNode.target # musicGainNode.value
  /\ musicGainNode.rampEnd = now + Ms(100)
  /\ now > 0
  /\ MusicVoices(voices) # {}

C21_StopAfterStart ==
  \A i \in DOMAIN voices : voices[i].stop > voices[i].start

\* C22 (as claimed): the polling tick, and the scheduler call that
\* startMusic makes, leave their scheduling loop.
C22_TickReturns == op \in {"tick", "startMusic"} => result # "hang"

\* Two voices of one track with no voice of that track between them in
\* the log, the later one playing the next note of the track.
Consecutive(i, j) ==
  /\ i < j
  /\ voices[i].bus = "music" /\ voices[j].bus = "music"
  /\ voices[i].track = voices[j].track
  /\ \A k \in (i + 1)..(j - 1) : voices[k].track # voices[i].track
  /\ voices[j].idx = voices[i].idx + 1

\* C23 (as claimed): of two consecutive voices of a track, the later starts
\* when the earlier stops.
C23_TrackTiles ==
  \A i, j \in DOMAIN voices :
     Consecutive(i, j) => voices[j].start = voices[i].stop

\* The number of notes of a music voice's track.
TrackLen(v) == IF v.track = "melody" THEN Len(melody) ELSE Len(bassLine)

\* The rank of a voice among the voices of its track that a step adds.
Rank(i) ==
  Cardinality({k \in Added : k < i /\ voices'[k].track = voices'[i].track})

\* currentNote when the step starts to schedule: startMusic resets it.
Counter0 == IF Called("startMusic") THEN 0 ELSE currentNote

\* C24: the voices a step adds to a track play, in order, the notes of
\* index currentNote mod length, (currentNote + 1) mod length, ..., all in
\* range, and currentNote advances by the number of notes scheduled: the
\* index sequence of a session is 0, 1, ..., length - 1, 0, 1, ...
C24_IndexFromCounter ==
  [][/\ \A i \in AddedMusic :
           /\ voices'[i].idx = (Counter0 + Rank(i)) % TrackLen(voices'[i])
           /\ voices'[i].idx \in 0..(TrackLen(voices'[i]) - 1)
     /\ AddedMusic # {} =>
           currentNote' = Counter0 +
              Cardinality({i \in AddedMusic : voices'[i].track = "bass"})]_vars

\* Both tracks have wrapped around: the tick has just scheduled the note
\* of tick count 23, melody[0] again and bassLine[8].
C24_Witness ==
  /\ op = "tick"
  /\ currentNote = Len(melody) + 1
  /\ Len(voices) = 2 * currentNote
  /\ voices[Len(voices) - 1].track = "melody"
  /\ voices[Len(voices) - 1].idx = 0
  /\ voices[Len(voices) - 3].idx = Len(melody) - 1
  /\ voices[Len(voices)].track = "bass"
  /\ voices[Len(voices)].idx = Len(melody) - Len(bassLine)
  /\ \E i \in 3..Len(voices) :
        /\ voices[i].track = "bass" /\ voices[i].idx = 0
        /\ voices[i - 2].track = "bass" /\ voices[i - 2].idx = Len(bassLine) - 1

\* Two different music voices of one track.
SameTrack(i, j) ==
  /\ i # j
  /\ voices[i].bus = "music" /\ voices[j].bus = "music"
  /\ voices[i].track = voices[j].track

C26_TickRearms ==
  [][(op' = "tick" /\ musicPlaying) =>
        /\ result' = "ok"
        /\ nextNoteTime' >= now + LOOKAHEAD
        /\ \E t \in timers' : t.id = timerID' /\ t.left = Ms(25)]_vars

\* C27 (as claimed): stopMusic halts the scheduling and resets the cursor
\* index to 0.
C27_StopResetsCursor ==
  [][Called("stopMusic") =>
        /\ ~musicPlaying'
        /\ \A t \in timers' : t.id # timerID
        /\ currentNote' = 0]_vars

\* C27 (amended): stopMusic halts the scheduling and leaves the cursor
\* (currentNote and nextNoteTime) where it was; the startMusic that starts
\* the next session resets the index to 0 before it schedules.
C27_StartResetsCursor ==
  [][/\ Called("stopMusic") =>
           /\ ~musicPlaying'
           /\ \A t \in timers' : t.id # timerID
           /\ currentNote' = currentNote
           /\ nextNoteTime' = nextNoteTime
     /\ (Called("startMusic") /\ ~musicPlaying /\ musicPlaying') =>
           /\ currentNote' =
                Cardinality({i \in AddedMusic : voices'[i].track = "bass"})
           /\ \A i \in AddedMusic : voices'[i].idx = Rank(i)]_vars

\* The music was stopped after notes had been scheduled: the cursor index
\* is not 0.
C27_Witness ==
  /\ op = "stopMusic"
  /\ ~musicPlaying
  /\ timers = {}
  /\ currentNote > 0
  /\ nextNoteTime > now

\* C28: once musicGainNode is created no step but setVolumes, which ramps
\* it, changes it, so it is never created again; it is created by a step
\* that schedules, not before, and while it does not exist there is no
\* music voice.
C28_OneMusicBus ==
  /\ [](MusicVoices(voices) # {} => musicGainNode.created)
  /\ [][/\ (musicGainNode.created /\ ~Called("setVolumes")) =>
              musicGainNode' = musicGainNode
        /\ (musicGainNode.created /\ Called("setVolumes")) =>
              /\ musicGainNode'.created
              /\ musicGainNode'.value = musicGainNode.value
        /\ (~musicGainNode.created /\ musicGainNode'.created) =>
              /\ op' = "tick"
              /\ musicGainNode'.value = musicVolume]_vars

\* A second session schedules through the bus the first one created: its
\* gain is still the value set at creation, not the present musicVolume.
C28_Witness ==
  /\ op = "tick"
  /\ musicGainNode.created
  /\ musicGainNode.value # musicVolume
  /\ \E i, j \in MusicVoices(voices) :
        /\ i < j
        /\ voices[i].track = "melody" /\ voices[j].track = "melody"
        /\ voices[i].idx = 0 /\ voices[j].idx = 0

\* C29 (as claimed): a step adds as many bass voices as melody voices, and
\* the melody and the bass voice of the same rank start at the same time
\* and play melody[tick mod 23] and bassLine[tick mod 15] of the same tick.
C29_PhaseAligned ==
  [][\A i \in AddedMusic :
        \E j \in AddedMusic :
           /\ voices'[j].track # voices'[i].track
           /\ Rank(j) = Rank(i)
           /\ voices'[j].start = voices'[i].start
           /\ voices'[i].idx = (Counter0 + Rank(i)) % TrackLen(voices'[i])
           /\ voices'[j].idx = (Counter0 + Rank(i)) % TrackLen(voices'[j])]_vars

\* nextNoteTime when the step starts to schedule: startMusic sets it.
Cursor0 == IF Called("startMusic") THEN now + StartOffset ELSE nextNoteTime

\* The melody voices a step adds.
AddedMelody == {i \in AddedMusic : voices'[i].track = "melody"}

\* C30: the first melody voice a step adds starts at nextNoteTime, which
\* startMusic has set to the current time plus 0.1 s, each further one at
\* the stop time of the one before, and a step that returns leaves
\* nextNoteTime at the stop time of the last: the melody voices of a
\* session tile the timeline from the start offset on, whatever the tempo
\* of each step.
C30_MelodyTiles ==
  [][/\ \A i \in AddedMelody :
           IF Rank(i) = 0
             THEN voices'[i].start = Cursor0
             ELSE \E k \in AddedMelody :
                     /\ Rank(k) = Rank(i) - 1
                     /\ voices'[i].start = voices'[k].stop
     /\ (op' \in {"tick", "startMusic"} /\ result' = "ok") =>
           IF AddedMelody = {}
             THEN nextNoteTime' = IF Called("startMusic") /\ ~musicPlaying
                                    THEN now + StartOffset ELSE nextNoteTime
             ELSE \E k \in AddedMelody :
                     /\ Rank(k) = Cardinality(AddedMelody) - 1
                     /\ nextNoteTime' = voices'[k].stop]_vars

\* A tick at 150 BPM has added the second note of a session whose first
\* note was scheduled at 110 BPM, right where the first stops.
C30_Witness ==
  /\ op = "tick"
  /\ currentBPM = 150
  /\ Len(voices) >= 4
  /\ voices[Len(voices) - 3].track = "melody"
  /\ voices[Len(voices) - 3].idx = 0
  /\ voices[Len(voices) - 3].stop - voices[Len(voices) - 3].start
        = 2 * sixteenthNoteTime(110)
  /\ voices[Len(voices) - 1].track = "melody"
  /\ voices[Len(voices) - 1].idx = 1
  /\ voices[Len(voices) - 1].start = voices[Len(voices) - 3].stop
  /\ voices[Len(voices) - 1].stop - voices[Len(voices) - 1].start
        = 2 * sixteenthNoteTime(150)

\* C31: a call of an effect leaves musicPlaying, currentNote,
\* nextNoteTime, the timers, the tempo, both volumes and musicGainNode as
\* they are, and, given a context, adds voices whether the music plays or
\* not; these voices are not on the music bus and their gain is made of
\* sfxVolume and the literals 0 and 0.01 only; the gain of a melody or bass
\* voice is made of literals only.
C31_EffectsApart ==
  [][/\ \A n \in EffectNames : Called(n) =>
           /\ UNCHANGED <<musicPlaying, currentNote, nextNoteTime, timers,
                          timerID, currentBPM, sfxVolume, musicVolume,
                          musicGainNode>>
           /\ ~getContextThrows => Added # {}
           /\ \A i \in Added :
                 /\ voices'[i].bus = "sfx"
                 /\ GainValues(voices'[i]) \subseteq
                       {GainFactor(voices'[i].track) * sfxVolume, 0, 10}
     /\ \A i \in AddedMusic :
           LET v == voices'[i]
           IN  v.gain = IF v.track = "melody"
                          THEN << SetAt(10, v.start), LinTo(100, v.start + Ms(50)),
                                  ExpTo(10, v.stop - Ms(50)) >>
                          ELSE << SetAt(150, v.start), ExpTo(10, v.stop) >>]_vars

\* An effect triggered while the music plays, its timer pending and notes
\* scheduled, with a musicVolume other than sfxVolume.
C31_Witness ==
  /\ op \in EffectNames
  /\ musicPlaying
  /\ timers # {}
  /\ musicVolume # sfxVolume
  /\ MusicVoices(voices) # {}
  /\ Len(voices) > 0
  /\ voices[Len(voices)].bus = "sfx"

\* C32: whenever musicGainNode exists, the value its gain is set or ramping
\* to is musicVolume; when it is created that is the value it is set to.
C32_BusFollowsVolume ==
  /\ [](musicGainNode.created => musicGainNode.target = musicVolume)
  /\ [][(~musicGainNode.created /\ musicGainNode'.created) =>
           musicGainNode'.value = musicVolume']_vars

\* The bus was created after setVolumes had changed musicVolume, and
\* setVolumes was called again since.
C32_Witness ==
  /\ op = "setVolumes"
  /\ musicGainNode.created
  /\ musicGainNode.value # 30
  /\ musicGainNode.target # musicGainNode.value
  /\ musicGainNode.target = musicVolume

\* C33 (as claimed): in every reachable state of the application music is
\* running only if the stored music volume is > 0; updateSettings leaves
\* music running exactly when the new bgmVolume is > 0, and startGame
\* starts music only when bgmVolume is > 0.
C33_MusicFollowsSetting ==
  /\ [](musicPlaying => settings.bgmVolume > 0)
  /\ [][/\ op' = "updateSettings" =>
               (musicPlaying' <=> settings'.bgmVolume > 0)
        /\ (op' = "startGame" /\ ~musicPlaying /\ musicPlaying') =>
               settings.bgmVolume > 0]_vars

\* C34: while the game is PLAYING the engine tempo is 150 BPM exactly when
\* 0 < timer <= 10 and 110 BPM otherwise, after every countdown update;
\* and a step that enters GAME_OVER or starts a new game leaves the tempo
\* at 110 BPM.
C34_TempoFollowsCountdown ==
  /\ [](gameState = "PLAYING" =>
          /\ timer > 0
          /\ currentBPM = IF timer <= 10 THEN 150 ELSE 110)
  /\ [][/\ (op' = "countdown" /\ gameState' = "PLAYING") =>
               currentBPM' = IF 0 < timer' /\ timer' <= 10 THEN 150 ELSE 110
        /\ (gameState # "GAME_OVER" /\ gameState' = "GAME_OVER") =>
               currentBPM' = 110
        /\ op' = "startGame" => currentBPM' = 110]_vars

\* The countdown of an Easy game reaches 10 while music plays: the tempo
\* has gone from 110 to 150 BPM.
C34_Witness ==
  /\ op = "countdown"
  /\ gameState = "PLAYING"
  /\ difficulty = "Easy"
  /\ timer = 10
  /\ currentBPM = 150
  /\ musicPlaying

Match ==
  /\ currentContainer = customer.order.container
  /\ currentTopping = customer.order.topping
  /\ currentLayers = customer.order.layers

\* C36: a serve awards 10 * coinMultiplier(difficulty) coins and triggers
\* the success effect if and only if the built container, topping and
\* layer sequence equal the customer's order, and the game then goes back
\* to LOADING_ORDER; otherwise it triggers the error effect, leaves the
\* coins unchanged and the game ends in GAME_OVER.
C36_ServeOutcome ==
  /\ [](gameState = "RESULT" => (isSuccess <=> Match))
  /\ [][/\ op' = "handleServe" =>
              /\ gameState' = "RESULT"
              /\ coins' = IF Match
                   THEN coins + 10 * DIFFICULTY_SETTINGS[difficulty].coinMultiplier
                   ELSE coins
              /\ ~getContextThrows =>
                    /\ Added # {}
                    /\ \A i \in Added :
                          voices'[i].track = IF Match THEN "success"
                                                      ELSE "error"
        /\ (gameState = "RESULT" /\ gameState' # "RESULT") =>
              /\ op' = "resultTimeout"
              /\ coins' = coins
              /\ gameState' = IF Match THEN "LOADING_ORDER"
                                        ELSE "GAME_OVER"]_vars

\* A Master game after the fallback customer's order was served right: 100
\* coins, and the next order is being loaded.
C36_Witness ==
  /\ op = "resultTimeout"
  /\ gameState = "LOADING_ORDER"
  /\ difficulty = "Master"
  /\ coins = 100
  /\ \E i \in DOMAIN voices : voices[i].track = "success"

\* C37: generateCustomerOrder resolves with the fallback customer when the
\* API key is missing, the request throws, the response is empty or its
\* text is not valid JSON, so that every fetch ends with a customer and the
\* game PLAYING; and the scoops it requests are maxScoops of the difficulty,
\* 1 to 5 for Easy to Master.
C37_OrderFallback ==
  /\ \A d \in Difficulties :
        /\ numScoops(d) = DIFFICULTY_SETTINGS[d].maxScoops
        /\ \A key \in BOOLEAN, reply \in Replies(numScoops(d)) :
              (~key \/ reply.kind \in {"rejected", "empty", "garbage"}) =>
                 generateCustomerOrder(d, key, reply) = FALLBACK_CUSTOMER
  /\ << numScoops("Easy"), numScoops("Medium"), numScoops("Hard"),
        numScoops("Expert"), numScoops("Master") >> = << 1, 2, 3, 4, 5 >>
  /\ [][op' = "fetchOrder" =>
          /\ result' = "ok"
          /\ gameState' = "PLAYING"
          /\ customer' # NoCustomer
          /\ request' \in {0, DIFFICULTY_SETTINGS[difficulty].maxScoops}
          /\ customer' # FALLBACK_CUSTOMER =>
                /\ request' = DIFFICULTY_SETTINGS[difficulty].maxScoops
                /\ Len(customer'.order.layers) = request']_vars

\* A Master game whose request for 5 scoops came to nothing: the fallback
\* customer is at the counter and the game plays.
C37_Witness ==
  /\ op = "fetchOrder"
  /\ gameState = "PLAYING"
  /\ difficulty = "Master"
  /\ request = 5
  /\ customer = FALLBACK_CUSTOMER

====
